---- MODULE Spec2Model ----
(***************************************************************************)
(* Triage pipeline of the email auto-organizer backend:                    *)
(*   TriageService.classify_email          (app/services/triage_service)   *)
(*   PriorityEngine.apply_custom_rules     (app/services/priority_engine)  *)
(*   EmbeddingService                      (app/services/embedding_service)*)
(*   ConfidenceService                     (app/services/confidence_service)*)
(*   CompleteTriageService.process_email   (app/services/complete_triage)  *)
(*                                                                         *)
(* Text is modelled as sequences of one-character strings, so that         *)
(* str.lower(), the substring test `kw in subject` and re.search on a      *)
(* literal pattern are computed, not assumed.                              *)
(***************************************************************************)
EXTENDS Integers, Sequences, FiniteSets, TLC

VARIABLES
    email,                \* the Email object handed to process_email
    user_preferences,     \* the preference dict handed to process_email
    store,                \* committed rows of the emails table, by id
    pc,                   \* position inside process_email
    response,             \* outcome of the completion call of step 1
    caught,               \* the exception bound by `except Exception as e`
    model_classification, \* what classify_email returned (history of step 1)
    ai_classification,    \* the dict threaded through (mutated by step 2)
    embedding,            \* local of step 3
    similar_emails,       \* local of step 4
    result,               \* the dict process_email returns
    call,                 \* a direct call of one service method: its
                          \* arguments and, once it returned, its value
    database,             \* what the database did to the queries of the
                          \* last find_similar_emails call
    conc,                 \* the locals of each of several process_email
                          \* invocations running at the same time
    sync                  \* the emails table, the fetch_new_emails tasks
                          \* and the queue of process_email tasks

vars == <<email, user_preferences, store, pc, response, caught,
          model_classification, ai_classification, embedding, similar_emails,
          result, call, database, conc, sync>>

-----------------------------------------------------------------------------
(* Bounds of the model *)

MaxRules == 2

MaxStore == 3

\* length of the similar_emails list handed to calculate_confidence
MaxNeighbours == 3

\* rows of the table find_similar_emails is called on directly
MaxCallStore == 4

-----------------------------------------------------------------------------
(* Text: str.lower() and the substring test *)

UpperChars == <<"A","B","C","D","E","F","G","H","I","J","K","L","M",
                "N","O","P","Q","R","S","T","U","V","W","X","Y","Z">>

LowerChars == <<"a","b","c","d","e","f","g","h","i","j","k","l","m",
                "n","o","p","q","r","s","t","u","v","w","x","y","z">>

UpperToLower ==
    [c \in {UpperChars[i] : i \in 1..Len(UpperChars)} |->
        LowerChars[CHOOSE i \in 1..Len(UpperChars) : UpperChars[i] = c]]

LowerChar(c) == IF c \in DOMAIN UpperToLower THEN UpperToLower[c] ELSE c

\* str.lower()
Lower(s) == [i \in 1..Len(s) |-> LowerChar(s[i])]

\* `needle in hay` for two str values
Contains(hay, needle) ==
    \E off \in 0..(Len(hay) - Len(needle)) :
        \A j \in 1..Len(needle) : hay[off + j] = needle[j]

-----------------------------------------------------------------------------
(* Regular expressions: the modelled subset of `re` is literal characters, *)
(* "." (any character) and parentheses; a pattern whose parentheses do not *)
(* balance does not compile (re.error).  The patterns drawn below never    *)
(* contain a balanced group.                                               *)

Count(s, c) == Cardinality({i \in 1..Len(s) : s[i] = c})

ReMalformed(p) == Count(p, "(") # Count(p, ")")

\* re.search(p, s) is not None, for a pattern that compiles
ReSearch(p, s) ==
    \E off \in 0..(Len(s) - Len(p)) :
        \A j \in 1..Len(p) : p[j] = "." \/ s[off + j] = p[j]

-----------------------------------------------------------------------------
(* PriorityEngine *)

\* self.priority_keywords, in dict (insertion) order
KwUrgent == << <<"u","r","g","e","n","t">>, <<"a","s","a","p">>,
               <<"i","m","m","e","d","i","a","t","e">>,
               <<"c","r","i","t","i","c","a","l">>,
               <<"e","m","e","r","g","e","n","c","y">> >>

KwHigh == << <<"i","m","p","o","r","t","a","n","t">>,
             <<"p","r","i","o","r","i","t","y">>,
             <<"d","e","a","d","l","i","n","e">>,
             <<"t","o","d","a","y">> >>

KwMedium == << <<"p","l","e","a","s","e"," ","r","e","v","i","e","w">>,
               <<"f","e","e","d","b","a","c","k">>,
               <<"u","p","d","a","t","e">> >>

KwLow == << <<"f","y","i">>,
            <<"n","e","w","s","l","e","t","t","e","r">>,
            <<"n","o","t","i","f","i","c","a","t","i","o","n">> >>

priority_keywords ==
    << [priority |-> "urgent", keywords |-> KwUrgent],
       [priority |-> "high",   keywords |-> KwHigh],
       [priority |-> "medium", keywords |-> KwMedium],
       [priority |-> "low",    keywords |-> KwLow] >>

\* _priority_level: levels.get(priority, 2)
PriorityLevel(priority) ==
    CASE priority = "low"    -> 1
      [] priority = "medium" -> 2
      [] priority = "high"   -> 3
      [] priority = "urgent" -> 4
      [] OTHER               -> 2

\* dict.get(key, default)
Get(d, key, default) == IF key \in DOMAIN d THEN d[key] ELSE default

\* variant: the except branch lets the rule through
MatchesRuleErrorMatches(view, rule) ==
    IF "sender_pattern" \in DOMAIN rule /\ ReMalformed(rule.sender_pattern)
    THEN TRUE
    ELSE IF "sender_pattern" \in DOMAIN rule
            /\ ~ReSearch(rule.sender_pattern, view.sender_email)
    THEN FALSE
    ELSE IF "subject_contains" \in DOMAIN rule
            /\ ~Contains(Lower(view.subject), Lower(rule.subject_contains))
    THEN FALSE
    ELSE TRUE

\* variant: one condition that holds is enough
MatchesRuleAnyCondition(view, rule) ==
    IF "sender_pattern" \in DOMAIN rule /\ ReMalformed(rule.sender_pattern)
    THEN FALSE
    ELSE \/ DOMAIN rule \cap {"sender_pattern", "subject_contains"} = {}
         \/ /\ "sender_pattern" \in DOMAIN rule
            /\ ReSearch(rule.sender_pattern, view.sender_email)
         \/ /\ "subject_contains" \in DOMAIN rule
            /\ Contains(Lower(view.subject), Lower(rule.subject_contains))

\* _matches_rule: any exception inside the try block (re.error for a pattern
\* that does not compile) makes the rule not match
MatchesRule(view, rule) ==
    IF "sender_pattern" \in DOMAIN rule /\ ReMalformed(rule.sender_pattern)
    THEN FALSE
    ELSE IF "sender_pattern" \in DOMAIN rule
            /\ ~ReSearch(rule.sender_pattern, view.sender_email)
    THEN FALSE
    ELSE IF "subject_contains" \in DOMAIN rule
            /\ ~Contains(Lower(view.subject), Lower(rule.subject_contains))
    THEN FALSE
    ELSE TRUE

\* the outcome of a call: a returned value, or an exception that propagates
Returned(v) == [raised |-> FALSE, error |-> "", value |-> v]

\* (value: the dict as mutated in place up to the raise)
Raised(msg, v) == [raised |-> TRUE, error |-> msg, value |-> v]

\* variant: the deny-list test first, then the allow-list test
ListStageDenyFirst(view, cls, prefs) ==
    LET c1 == IF view.sender_email \in Get(prefs, "blacklist_senders", {})
              THEN [cls EXCEPT !.priority = "low"] ELSE cls
    IN  IF view.sender_email \in Get(prefs, "whitelist_senders", {})
        THEN [c1 EXCEPT !.priority = "high"] ELSE c1

\* variant: the deny-list is read under a key the preferences never carry
ListStageWrongKey(view, cls, prefs) ==
    LET c1 == IF view.sender_email \in Get(prefs, "whitelist_senders", {})
              THEN [cls EXCEPT !.priority = "high"] ELSE cls
    IN  IF view.sender_email \in Get(prefs, "blocklist_senders", {})
        THEN [c1 EXCEPT !.priority = "low"] ELSE c1

\* variant: the allow list raises to high but leaves urgent alone
ListStageRaiseOnly(view, cls, prefs) ==
    LET c1 == IF view.sender_email \in Get(prefs, "whitelist_senders", {})
                 /\ cls.priority # "urgent"
              THEN [cls EXCEPT !.priority = "high"] ELSE cls
    IN  IF view.sender_email \in Get(prefs, "blacklist_senders", {})
        THEN [c1 EXCEPT !.priority = "low"] ELSE c1

\* lines 18-23: the allow-list test, then the deny-list test
ListStage(view, cls, prefs) ==
    LET c1 == IF view.sender_email \in Get(prefs, "whitelist_senders", {})
              THEN [cls EXCEPT !.priority = "high"] ELSE cls
    IN  IF view.sender_email \in Get(prefs, "blacklist_senders", {})
        THEN [c1 EXCEPT !.priority = "low"] ELSE c1

\* lines 26-30: every matching rule assigns; rule['priority'] raises KeyError
\* when the matching rule has no such key
RECURSIVE RuleLoop(_, _, _, _)
RuleLoop(view, rules, i, cls) ==
    IF i > Len(rules) THEN Returned(cls)
    ELSE IF MatchesRule(view, rules[i])
         THEN IF "priority" \notin DOMAIN rules[i]
              THEN Raised("'priority'", cls)
              ELSE RuleLoop(view, rules, i + 1,
                            [cls EXCEPT !.priority = rules[i].priority,
                                        !.category = Get(rules[i], "category",
                                                         cls.category)])
         ELSE RuleLoop(view, rules, i + 1, cls)

\* variant: the loop stops at the first matching rule
RuleStageFirstMatch(view, cls, prefs) ==
    LET rules == Get(prefs, "priority_rules", << >>)
        hits  == {i \in 1..Len(rules) : MatchesRule(view, rules[i])}
    IN  IF hits = {} THEN Returned(cls)
        ELSE LET i == CHOOSE k \in hits : \A j \in hits : k <= j
             IN  RuleLoop(view, <<rules[i]>>, 1, cls)

\* variant: a matching rule without target category resets the category
RuleStageCategoryReset(view, cls, prefs) ==
    LET rules == Get(prefs, "priority_rules", << >>)
        hits  == {i \in 1..Len(rules) : MatchesRule(view, rules[i])}
        r     == RuleLoop(view, rules, 1, cls)
    IN  IF r.raised \/ hits = {} THEN r
        ELSE LET i == CHOOSE k \in hits : \A j \in hits : j <= k
             IN  Returned([r.value EXCEPT
                     !.category = Get(rules[i], "category", "other")])

RuleStage(view, cls, prefs) ==
    RuleLoop(view, Get(prefs, "priority_rules", << >>), 1, cls)

\* lines 33-37: one pass over the buckets in dict order
RECURSIVE KeywordLoop(_, _, _)
KeywordLoop(subject_lower, i, cls) ==
    IF i > Len(priority_keywords) THEN cls
    ELSE LET b == priority_keywords[i]
             hit == \E k \in 1..Len(b.keywords) :
                        Contains(subject_lower, b.keywords[k])
         IN  IF hit /\ PriorityLevel(b.priority) > PriorityLevel(cls.priority)
             THEN KeywordLoop(subject_lower, i + 1,
                              [cls EXCEPT !.priority = b.priority])
             ELSE KeywordLoop(subject_lower, i + 1, cls)

\* variant: a bucket whose keyword occurs assigns its priority, whatever the
\* current level
RECURSIVE KeywordLoopNoGuard(_, _, _)
KeywordLoopNoGuard(subject_lower, i, cls) ==
    IF i > Len(priority_keywords) THEN cls
    ELSE LET b == priority_keywords[i]
             hit == \E k \in 1..Len(b.keywords) :
                        Contains(subject_lower, b.keywords[k])
         IN  IF hit
             THEN KeywordLoopNoGuard(subject_lower, i + 1,
                                     [cls EXCEPT !.priority = b.priority])
             ELSE KeywordLoopNoGuard(subject_lower, i + 1, cls)

KeywordStageNoGuard(view, cls) == KeywordLoopNoGuard(Lower(view.subject), 1, cls)

\* variant: only the last bucket (in dict order) whose keyword occurs is
\* compared with the current level
KeywordStageLastHit(view, cls) ==
    LET hits == {i \in 1..Len(priority_keywords) :
                    \E k \in 1..Len(priority_keywords[i].keywords) :
                        Contains(Lower(view.subject),
                                 priority_keywords[i].keywords[k])}
    IN  IF hits = {} THEN cls
        ELSE LET b == priority_keywords[CHOOSE i \in hits :
                                           \A j \in hits : j <= i]
             IN  IF PriorityLevel(b.priority) > PriorityLevel(cls.priority)
                 THEN [cls EXCEPT !.priority = b.priority]
                 ELSE cls

\* variant: a subject with a keyword raises the priority by one level
KeywordStageBump(view, cls) ==
    IF \E i \in 1..Len(priority_keywords) :
           \E k \in 1..Len(priority_keywords[i].keywords) :
               Contains(Lower(view.subject), priority_keywords[i].keywords[k])
    THEN [cls EXCEPT !.priority =
              CASE @ = "low"    -> "medium"
                [] @ = "medium" -> "high"
                [] @ = "high"   -> "urgent"
                [] OTHER        -> @]
    ELSE cls

KeywordStage(view, cls) == KeywordLoop(Lower(view.subject), 1, cls)

\* variant: the lists are consulted after the custom rules
ApplyCustomRulesListsLast(view, cls, prefs) ==
    LET r == RuleStage(view, cls, prefs)
    IN  IF r.raised THEN r
        ELSE Returned(KeywordStage(view, ListStage(view, r.value, prefs)))

\* variant: a changed priority is explained in the reasoning
ApplyCustomRulesExplains(view, cls, prefs) ==
    LET r == RuleStage(view, ListStage(view, cls, prefs), prefs)
        v == KeywordStage(view, r.value)
    IN  IF r.raised THEN r
        ELSE IF v.priority = cls.priority THEN Returned(v)
        ELSE Returned([v EXCEPT !.reasoning =
                           [prefix |-> "Rule applied: ", text |-> @.text]])

\* apply_custom_rules
ApplyCustomRules(view, cls, prefs) ==
    LET r == RuleStage(view, ListStage(view, cls, prefs), prefs)
    IN  IF r.raised THEN r ELSE Returned(KeywordStage(view, r.value))

-----------------------------------------------------------------------------
(* TriageService.classify_email *)

\* f'Classification failed: {str(e)}' and f'Processing failed: {str(e)}':
\* a reasoning text is the pair of its fixed prefix and the inserted text
Reasoning(prefix, text) == [prefix |-> prefix, text |-> text]

\* variant: the default does not say what failed
DefaultClassificationSilent(e) ==
    [category |-> "other", priority |-> "medium", urgency_score |-> 50,
     sentiment |-> "neutral", requires_action |-> FALSE,
     reasoning |-> Reasoning("", "")]

\* lines 59-66: the dict returned from the except branch
DefaultClassification(e) ==
    [category |-> "other", priority |-> "medium", urgency_score |-> 50,
     sentiment |-> "neutral", requires_action |-> FALSE,
     reasoning |-> Reasoning("Classification failed: ", e)]

\* float(x) of a JSON value: a number converts, a non-numeric string raises
FloatRaises(x) == "text" \in DOMAIN x

\* variant: a response lacking any field is treated as a failure
ClassifyEmailAllOrNothing(resp) ==
    IF resp.kind = "error" THEN DefaultClassification(resp.error)
    ELSE IF resp.kind = "text" THEN DefaultClassification("Expecting value")
    ELSE LET c == resp.body
         IN  IF DOMAIN c # {"category", "priority", "urgency_score",
                            "sentiment", "requires_action", "reasoning"}
                \/ FloatRaises(c.urgency_score)
             THEN DefaultClassification("missing field")
             ELSE [category |-> c.category, priority |-> c.priority,
                   urgency_score |-> c.urgency_score.num,
                   sentiment |-> c.sentiment,
                   requires_action |-> c.requires_action,
                   reasoning |-> Reasoning("", c.reasoning)]

\* lines 36-66.  A response is the outcome of the completion call: an
\* exception (kind "error"), content that json.loads rejects (kind "text"), or
\* a JSON object (kind "json", its members in `body`).  urgency_score is kept
\* in hundredths.
ClassifyEmail(resp) ==
    IF resp.kind = "error" THEN DefaultClassification(resp.error)
    ELSE IF resp.kind = "text" THEN DefaultClassification("Expecting value")
    ELSE LET c == resp.body
         IN  IF "urgency_score" \in DOMAIN c /\ FloatRaises(c.urgency_score)
             THEN DefaultClassification("could not convert string to float")
             ELSE [category |-> Get(c, "category", "other"),
                   priority |-> Get(c, "priority", "medium"),
                   urgency_score |-> Get(c, "urgency_score", [num |-> 50]).num,
                   sentiment |-> Get(c, "sentiment", "neutral"),
                   requires_action |-> Get(c, "requires_action", FALSE),
                   reasoning |-> Reasoning("", Get(c, "reasoning", ""))]

-----------------------------------------------------------------------------
(* ConfidenceService.  Scores are kept in units of 1/600, so that          *)
(* (matching / len(similar_emails)) * 0.1 is exact for up to six neighbours.*)

One == 600

BaseConfidence == 420

RulesBoost == 120

SimilarityWeight == 60

Min(a, b) == IF a < b THEN a ELSE b

\* variant: every matching neighbour adds the whole similarity weight
CalculateConfidenceNoRatio(cls, user_rules_applied, similar) ==
    LET c1 == BaseConfidence + (IF user_rules_applied THEN RulesBoost ELSE 0)
        matching == Cardinality({i \in 1..Len(similar) :
                        "category" \in DOMAIN similar[i]
                        /\ similar[i].category = cls.category})
    IN  Min(c1 + matching * SimilarityWeight, One)

\* calculate_confidence
CalculateConfidence(cls, user_rules_applied, similar) ==
    LET c1 == BaseConfidence + (IF user_rules_applied THEN RulesBoost ELSE 0)
        matching == Cardinality({i \in 1..Len(similar) :
                        "category" \in DOMAIN similar[i]
                        /\ similar[i].category = cls.category})
        c2 == IF Len(similar) > 0
              THEN c1 + (matching * SimilarityWeight) \div Len(similar)
              ELSE c1
    IN  Min(c2, One)

ReviewThreshold == 360

\* The sums above are exact; Python computes them in IEEE-754 binary64.  A
\* double is kept as its 53-bit significand (most significant bit first) and
\* the exponent of its last bit.  HexBits reads the significand from the digits
\* of float.hex(): a leading 1 and thirteen hexadecimal digits.
HexBits(ds) ==
    [i \in 1..53 |->
        IF i = 1 THEN 1
        ELSE LET d == ds[2 + ((i - 2) \div 4)]
                 k == (i - 2) % 4
             IN  (d \div (2 ^ (3 - k))) % 2]

\* the literal 0.7 (line 13): 0x1.6666666666666p-1
Double07 == [m |-> HexBits(<<1, 6, 6, 6, 6, 6, 6, 6, 6, 6, 6, 6, 6, 6>>),
             e |-> -53]

\* the literal 0.2 (line 17): 0x1.999999999999ap-3
Double02 == [m |-> HexBits(<<1, 9, 9, 9, 9, 9, 9, 9, 9, 9, 9, 9, 9, 10>>),
             e |-> -55]

Zeros(n) == [i \in 1..n |-> 0]

\* the carry into bit i when two bit strings of equal length are added
RECURSIVE CarryInto(_, _, _)
CarryInto(x, y, i) ==
    IF i = Len(x) THEN 0
    ELSE (x[i + 1] + y[i + 1] + CarryInto(x, y, i + 1)) \div 2

\* x + y for bit strings of equal length: one bit longer
AddBits(x, y) ==
    [i \in 1..Len(x) + 1 |->
        IF i = 1 THEN CarryInto(x, y, 0)
        ELSE (x[i - 1] + y[i - 1] + CarryInto(x, y, i - 1)) % 2]

\* the bit string without its leading zeros
RECURSIVE Strip(_)
Strip(x) == IF Len(x) > 1 /\ x[1] = 0 THEN Strip(Tail(x)) ELSE x

\* variant: ties are rounded away from zero
RoundBitsTiesAway(x, e) ==
    LET d    == Len(x) - 53
        kept == SubSeq(x, 1, 53)
        rest == SubSeq(x, 54, Len(x))
        up   == rest[1] = 1
        inc  == AddBits(kept, Zeros(52) \o <<1>>)
    IN  IF d <= 0 THEN [m |-> x \o Zeros(-d), e |-> e + d]
        ELSE IF ~up THEN [m |-> kept, e |-> e + d]
        ELSE IF inc[1] = 1 THEN [m |-> SubSeq(inc, 1, 53), e |-> e + d + 1]
        ELSE [m |-> Tail(inc), e |-> e + d]

\* round to nearest, ties to even: x is cut to 53 bits
RoundBits(x, e) ==
    LET d    == Len(x) - 53
        kept == SubSeq(x, 1, 53)
        rest == SubSeq(x, 54, Len(x))
        up   == /\ rest[1] = 1
                /\ \/ \E j \in 2..d : rest[j] = 1
                   \/ kept[53] = 1
        inc  == AddBits(kept, Zeros(52) \o <<1>>)
    IN  IF d <= 0 THEN [m |-> x \o Zeros(-d), e |-> e + d]
        ELSE IF ~up THEN [m |-> kept, e |-> e + d]
        ELSE IF inc[1] = 1 THEN [m |-> SubSeq(inc, 1, 53), e |-> e + d + 1]
        ELSE [m |-> Tail(inc), e |-> e + d]

\* a + b in binary64, for positive a and b with a.e >= b.e (line 17)
DoubleAdd(a, b) ==
    LET k == a.e - b.e
    IN  RoundBits(Strip(AddBits(a.m \o Zeros(k), Zeros(k) \o b.m)), b.e)

\* a < b for positive doubles
DoubleLess(a, b) ==
    \/ a.e < b.e
    \/ /\ a.e = b.e
       /\ \E i \in 1..53 : /\ a.m[i] < b.m[i]
                           /\ \A j \in 1..i - 1 : a.m[j] = b.m[j]

\* the double process_email returns when no neighbour matches: 0.7 + 0.2, to
\* which the similarity boost adds nothing
ConfidenceWithoutMatch == DoubleAdd(Double07, Double02)

\* variant: the threshold itself requires review
ShouldRequireReviewInclusive(confidence) == confidence <= ReviewThreshold

\* should_require_review
ShouldRequireReview(confidence) == confidence < ReviewThreshold

-----------------------------------------------------------------------------
(* EmbeddingService.  A vector of 1536 floats is modelled by a pair of     *)
(* non-negative integers; a row of the emails table by a record whose      *)
(* absent fields are the NULL columns.                                     *)

ZeroVector == <<0, 0>>

Dot(a, b) == a[1] * b[1] + a[2] * b[2]

\* cosine_distance(q, x) <= cosine_distance(q, y), for non-zero vectors with
\* non-negative coordinates: cos(q,x) >= cos(q,y)
CloserOrEqual(q, x, y) ==
    Dot(q, x) * Dot(q, x) * Dot(y, y) >= Dot(q, y) * Dot(q, y) * Dot(x, x)

\* default of the `limit` parameter
DefaultLimit == 5

\* variant: the query message is not filtered out
CandidatesWithSelf(st, email_id) ==
    {i \in DOMAIN st : "embedding" \in DOMAIN st[i]}

\* the rows the query of lines 40-45 selects: another id, embedding not NULL
Candidates(st, email_id) ==
    {i \in DOMAIN st : i # email_id /\ "embedding" \in DOMAIN st[i]}

\* the orders in which the database may return them: ascending distance,
\* ties in any order, cut at `limit`
RankedIds(st, email_id, limit) ==
    LET cand == Candidates(st, email_id)
        n    == Min(limit, Cardinality(cand))
        q    == st[email_id].embedding
    IN  {s \in [1..n -> cand] :
            /\ \A i, j \in 1..n : i < j => s[i] # s[j]
            /\ \A i, j \in 1..n :
                   i < j => CloserOrEqual(q, st[s[i]].embedding, st[s[j]].embedding)
            /\ \A i \in 1..n : \A c \in cand \ {s[k] : k \in 1..n} :
                   CloserOrEqual(q, st[s[i]].embedding, st[c].embedding)}

Row(st, i) == [f \in DOMAIN st[i] \cup {"id"} |->
                  IF f = "id" THEN i ELSE st[i][f]]

\* SessionLocal() (app/core/database.py) hands out a session without touching
\* the database: an unreachable store shows at the first query, not here
SessionLocalRaises == FALSE

\* variant: a failing query is not absorbed
FindSimilarEmailsPropagates(db, st, e, limit) ==
    IF SessionLocalRaises \/ db = "query_error"
    THEN {Raised("connection refused", << >>)}
    ELSE IF "id" \notin DOMAIN e
    THEN {Returned(<< >>)}
    ELSE IF e.id \notin DOMAIN st \/ "embedding" \notin DOMAIN st[e.id]
    THEN {Returned(<< >>)}
    ELSE {Returned([k \in 1..Len(s) |-> Row(st, s[k])]) :
             s \in RankedIds(st, e.id, limit)}

\* find_similar_emails: the set of outcomes the call can have.  `db` is what
\* the database does to the queries of the try block (lines 34-51): "ok" or
\* "query_error".  A message without id gives the literal 'None', which the
\* query rejects.
FindSimilarEmails(db, st, e, limit) ==
    IF SessionLocalRaises
    THEN {Raised("connection refused", << >>)}
    ELSE IF db = "query_error" \/ "id" \notin DOMAIN e
    THEN {Returned(<< >>)}
    ELSE IF e.id \notin DOMAIN st \/ "embedding" \notin DOMAIN st[e.id]
    THEN {Returned(<< >>)}
    ELSE {Returned([k \in 1..Len(s) |-> Row(st, s[k])]) :
              s \in RankedIds(st, e.id, limit)}

-----------------------------------------------------------------------------
(* CompleteTriageService.process_email *)

\* `x or ''` for an attribute that may be None
OrEmpty(e, f) == IF f \in DOMAIN e THEN e[f] ELSE << >>

\* the dict handed to apply_custom_rules (lines 28-32)
View(e) == [subject |-> OrEmpty(e, "subject"),
            sender_email |-> OrEmpty(e, "sender_email")]

\* variant: the except branch reports a fixed text instead of str(e)
FallbackNoCause(e) ==
    [classification |->
         [category |-> "other", priority |-> "medium", urgency_score |-> 50,
          sentiment |-> "neutral", requires_action |-> FALSE,
          reasoning |-> Reasoning("Processing failed: ", "")],
     confidence |-> 0, requires_review |-> TRUE, similar_emails |-> << >>]

\* variant: the except branch returns a dict without 'similar_emails'
FallbackPartial(e) ==
    [classification |->
         [category |-> "other", priority |-> "medium", urgency_score |-> 50,
          sentiment |-> "neutral", requires_action |-> FALSE,
          reasoning |-> Reasoning("Processing failed: ", e)],
     confidence |-> 0, requires_review |-> TRUE]

\* lines 60-74: the dict returned from the except branch
Fallback(e) ==
    [classification |->
         [category |-> "other", priority |-> "medium", urgency_score |-> 50,
          sentiment |-> "neutral", requires_action |-> FALSE,
          reasoning |-> Reasoning("Processing failed: ", e)],
     confidence |-> 0, requires_review |-> TRUE, similar_emails |-> << >>]

\* variant: the assignment is also written to the row of the message
StoreAfterAttachCommitted(st, e, v) ==
    IF "id" \in DOMAIN e /\ e.id \in DOMAIN st
    THEN [st EXCEPT ![e.id] = [f \in DOMAIN @ \cup {"embedding"} |->
                                  IF f = "embedding" THEN v ELSE @[f]]]
    ELSE st

\* line 41 assigns an attribute of the caller's object: no flush, no commit,
\* the table is as it was
StoreAfterAttach(st, e, v) == st

\* email.embedding = embedding
Attach(e, v) == [f \in DOMAIN e \cup {"embedding"} |->
                    IF f = "embedding" THEN v ELSE e[f]]

-----------------------------------------------------------------------------
(* Inputs *)

SenderA == <<"a","@","x">>

SenderB == <<"b","@","y">>

Subjects ==
    { << >>,
      <<"F","Y","I"," ","i","n","v">>,
      <<"U","R","G","E","N","T">>,
      <<"f","y","i"," ","T","o","d","a","y">>,
      <<"U","p","d","a","t","e"," ","i","n","v">> }

\* custom rules: without condition; with a sender pattern; with a subject
\* substring; with a pattern that does not compile; without target priority;
\* with both conditions and a target outside the closed set
RuleAll == [priority |-> "low"]

RuleSender == [sender_pattern |-> <<"@","x">>, priority |-> "urgent",
               category |-> "work"]

RuleSubject == [subject_contains |-> <<"I","n","v">>, priority |-> "high",
                category |-> "finance"]

RuleBadRegex == [sender_pattern |-> <<"(","a">>, priority |-> "urgent",
                 category |-> "support"]

RuleNoPriority == [subject_contains |-> <<"i","n","v">>]

RuleBoth == [sender_pattern |-> <<"a",".","x">>,
             subject_contains |-> <<"u","r","g">>, priority |-> "super"]

Rules == {RuleAll, RuleSender, RuleSubject, RuleBadRegex, RuleNoPriority,
          RuleBoth}

RuleSeqs == UNION {[1..n -> Rules] : n \in 0..MaxRules}

\* preference dicts; a key may be missing (preferences.get(key, []))
ListPrefs ==
    { [priority_rules |-> << >>],
      [whitelist_senders |-> {SenderA}, priority_rules |-> << >>],
      [blacklist_senders |-> {SenderA}, priority_rules |-> << >>],
      [whitelist_senders |-> {SenderA}, blacklist_senders |-> {SenderA},
       priority_rules |-> << >>] }

EnginePrefs ==
    {[p EXCEPT !.priority_rules = rs] : p \in ListPrefs, rs \in RuleSeqs}

Priorities == {"low", "medium", "high", "urgent"}

Categories == {"work", "personal", "marketing", "support", "finance", "other"}

\* classifications handed to the rule engine: every priority, and one value
\* outside the closed set
EngineClassifications ==
    {[category |-> c, priority |-> p, urgency_score |-> 20,
      sentiment |-> "positive", requires_action |-> TRUE,
      reasoning |-> Reasoning("", "model")] :
        c \in {"personal"}, p \in Priorities \cup {"critical"}}

EngineViews ==
    {[subject |-> s, sender_email |-> a] :
        s \in Subjects, a \in {SenderA, SenderB}}

Restrict(r, D) == [f \in D |-> r[f]]

\* messages handed to process_email: subject, sender and id may each be None
PipelineEmails ==
    {Restrict([id |-> 1, subject |-> s, sender_email |-> SenderA], D) :
        s \in {<<"U","R","G","E","N","T">>, <<"F","Y","I"," ","i","n","v">>},
        D \in SUBSET {"id", "subject", "sender_email"}}

PipelinePrefs ==
    { << >>,
      [whitelist_senders |-> {SenderA}, blacklist_senders |-> {},
       priority_rules |-> << >>],
      [blacklist_senders |-> {SenderA}, priority_rules |-> <<RuleSubject>>],
      [priority_rules |-> <<RuleNoPriority, RuleAll>>],
      [priority_rules |-> <<RuleBadRegex, RuleBoth>>],
      [priority_rules |-> <<RuleAll, RuleBoth>>] }

StoreRows ==
    { [category |-> "work", embedding |-> <<1, 0>>],
      [category |-> "other", embedding |-> <<1, 1>>],
      [category |-> "work"] }

\* the tables process_email runs against: empty, or MaxStore rows
Stores == UNION {[1..n -> StoreRows] : n \in {0, MaxStore}}

\* outcomes of the completion call
ModelResponses ==
    { [kind |-> "error", error |-> "Request timed out."],
      [kind |-> "text"],
      [kind |-> "json", body |-> << >>],
      [kind |-> "json",
       body |-> [category |-> "work", priority |-> "low",
                 urgency_score |-> [num |-> 20], sentiment |-> "positive",
                 requires_action |-> TRUE, reasoning |-> "model"]],
      [kind |-> "json",
       body |-> [category |-> "other", priority |-> "urgent",
                 urgency_score |-> [num |-> 100], reasoning |-> "model"]],
      [kind |-> "json",
       body |-> [category |-> "spam", priority |-> "critical",
                 urgency_score |-> [num |-> 700], reasoning |-> "model"]],
      [kind |-> "json",
       body |-> [category |-> "work", urgency_score |-> [text |-> "soon"]]] }

\* outcomes of the embeddings call: a vector, or the zero vector on failure
EmbeddingOutcomes == {<<1, 0>>, ZeroVector}

DbOutcomes == {"ok", "query_error"}

\* no lookup has been made
DbIdle == "idle"

-----------------------------------------------------------------------------
(* State machine *)

NotYet == << >>

NoException == [raised |-> FALSE, error |-> ""]

Exception(msg) == [raised |-> TRUE, error |-> msg]

\* a message that is stored carries the embedding of its row
Loaded(e, st) ==
    IF "id" \in DOMAIN e /\ e.id \in DOMAIN st
       /\ "embedding" \in DOMAIN st[e.id]
    THEN Attach(e, st[e.id].embedding) ELSE e

Init ==
    /\ store \in Stores
    /\ \E e \in PipelineEmails : email = Loaded(e, store)
    /\ user_preferences \in PipelinePrefs
    /\ pc = "start"
    /\ response = NotYet
    /\ caught = NoException
    /\ model_classification = NotYet
    /\ ai_classification = NotYet
    /\ embedding = NotYet
    /\ similar_emails = NotYet
    /\ result = NotYet
    /\ call = NotYet
    /\ database = DbIdle
    /\ conc = NotYet
    /\ sync = NotYet

\* step 1 (lines 20-24)
Classify ==
    /\ pc = "start"
    /\ response' \in ModelResponses
    /\ ai_classification' = ClassifyEmail(response')
    /\ model_classification' = ClassifyEmail(response')
    /\ pc' = "classified"
    /\ UNCHANGED <<call, database>>
    /\ UNCHANGED conc
    /\ UNCHANGED sync
    /\ UNCHANGED <<email, user_preferences, store, caught, embedding,
                   similar_emails, result>>

\* step 2 (lines 26-35); an exception goes to the except branch (lines 60-74)
ApplyRules ==
    /\ pc = "classified"
    /\ LET r == ApplyCustomRules(View(email), ai_classification,
                                 user_preferences)
       IN  /\ ai_classification' = r.value
           /\ IF r.raised
              THEN /\ caught' = Exception(r.error)
                   /\ result' = Fallback(r.error)
                   /\ pc' = "done"
              ELSE /\ caught' = caught
                   /\ result' = result
                   /\ pc' = "ruled"
    /\ UNCHANGED <<call, database>>
    /\ UNCHANGED conc
    /\ UNCHANGED sync
    /\ UNCHANGED <<email, user_preferences, store, response,
                   model_classification, embedding, similar_emails>>

\* step 3 (line 38): embed_email never raises
Embed ==
    /\ pc = "ruled"
    /\ embedding' \in EmbeddingOutcomes
    /\ pc' = "embedded"
    /\ UNCHANGED <<call, database>>
    /\ UNCHANGED conc
    /\ UNCHANGED sync
    /\ UNCHANGED <<email, user_preferences, store, response, caught,
                   model_classification, ai_classification, similar_emails,
                   result>>

\* step 4 (lines 41-42)
FindSimilar ==
    /\ pc = "embedded"
    /\ email' = Attach(email, embedding)
    /\ \E d \in DbOutcomes :
         \E r \in FindSimilarEmails(d, store, email, DefaultLimit) :
           /\ database' = d
           /\ IF r.raised
              THEN /\ caught' = Exception(r.error)
                   /\ result' = Fallback(r.error)
                   /\ pc' = "done"
                   /\ similar_emails' = similar_emails
              ELSE /\ caught' = caught
                   /\ similar_emails' = r.value
                   /\ pc' = "similar"
                   /\ result' = result
    /\ UNCHANGED call
    /\ UNCHANGED conc
    /\ UNCHANGED sync
    /\ UNCHANGED <<user_preferences, store, response, model_classification,
                   ai_classification, embedding>>

\* variant: the neighbours are compared with the category the model gave
ScoreRawCategory ==
    /\ pc = "similar"
    /\ LET confidence == CalculateConfidence(model_classification, TRUE,
                                             similar_emails)
       IN  result' = [classification |-> ai_classification,
                      confidence |-> confidence,
                      requires_review |-> ShouldRequireReview(confidence),
                      similar_emails |->
                          [k \in 1..Len(similar_emails) |->
                              similar_emails[k].id]]
    /\ pc' = "done"
    /\ UNCHANGED <<call, database>>
    /\ UNCHANGED conc
    /\ UNCHANGED sync
    /\ UNCHANGED <<email, user_preferences, store, response, caught,
                   model_classification, ai_classification, embedding,
                   similar_emails>>

\* steps 5 and 6 and the return (lines 44-59)
Score ==
    /\ pc = "similar"
    /\ LET confidence == CalculateConfidence(ai_classification, TRUE,
                                             similar_emails)
       IN  result' = [classification |-> ai_classification,
                      confidence |-> confidence,
                      requires_review |-> ShouldRequireReview(confidence),
                      similar_emails |->
                          [k \in 1..Len(similar_emails) |->
                              similar_emails[k].id]]
    /\ pc' = "done"
    /\ UNCHANGED <<call, database>>
    /\ UNCHANGED conc
    /\ UNCHANGED sync
    /\ UNCHANGED <<email, user_preferences, store, response, caught,
                   model_classification, ai_classification, embedding,
                   similar_emails>>

Next == Classify \/ ApplyRules \/ Embed \/ FindSimilar \/ Score

Spec == Init /\ [][Next]_vars

\* the rule engine alone, on every view, classification and preference dict
InitEngine ==
    /\ store \in {[i \in 1..1 |-> [category |-> "work"]]}
    /\ \E v \in EngineViews :
           email = [id |-> 1, subject |-> v.subject,
                    sender_email |-> v.sender_email]
    /\ user_preferences \in EnginePrefs
    /\ pc = "classified"
    /\ response = NotYet
    /\ caught = NoException
    /\ model_classification \in EngineClassifications
    /\ ai_classification = model_classification
    /\ embedding = NotYet
    /\ similar_emails = NotYet
    /\ result = NotYet
    /\ call = NotYet
    /\ database = DbIdle
    /\ conc = NotYet
    /\ sync = NotYet

SpecEngine == InitEngine /\ [][ApplyRules]_vars

-----------------------------------------------------------------------------
(* Direct calls of calculate_confidence, should_require_review and         *)
(* find_similar_emails, on arguments process_email need not produce        *)

\* the elements of a similar_emails list: rows with a category or with NULL
NeighbourRows == {[category |-> "work"], [category |-> "other"], << >>}

NeighbourLists == UNION {[1..n -> NeighbourRows] : n \in 0..MaxNeighbours}

ConfidenceCalls ==
    {[op |-> "calculate_confidence",
      ai_classification |-> [category |-> c, priority |-> "medium"],
      user_rules_applied |-> b, similar_emails |-> l] :
        c \in {"work", "finance"}, b \in BOOLEAN, l \in NeighbourLists}

Scores == 0..One

ReviewCalls == {[op |-> "should_require_review", confidence |-> x] :
                   x \in Scores}

\* rows at three different angles, and a row whose embedding is NULL
CallRows ==
    { [category |-> "work", embedding |-> <<1, 0>>],
      [category |-> "work", embedding |-> <<1, 1>>],
      [category |-> "work", embedding |-> <<0, 1>>],
      [category |-> "work"] }

CallStores == UNION {[1..n -> CallRows] : n \in {0, MaxCallStore}}

Limits == {1, 2, DefaultLimit}

SimilarCalls ==
    {[op |-> "find_similar_emails", email_id |-> i, limit |-> k] :
        i \in 1..MaxCallStore + 1, k \in Limits}

\* JSON objects the model may answer with: any of the six members may be
\* missing, and urgency_score may be a string that is not a number
FullBodies ==
    { [category |-> "work", priority |-> "low", urgency_score |-> u,
       sentiment |-> "positive", requires_action |-> TRUE,
       reasoning |-> "model"] : u \in {[num |-> 20], [text |-> "soon"]} }

CallResponses ==
    { [kind |-> "error", error |-> "Request timed out."], [kind |-> "text"] }
    \cup { [kind |-> "json", body |-> Restrict(b, D)] :
               b \in FullBodies,
               D \in SUBSET {"category", "priority", "urgency_score",
                             "sentiment", "requires_action", "reasoning"} }

ClassifyCalls == {[op |-> "classify_email", response |-> r] :
                     r \in CallResponses}

Return(c, v) == [f \in DOMAIN c \cup {"ret"} |->
                    IF f = "ret" THEN v ELSE c[f]]

InitCalls ==
    /\ \/ call \in ConfidenceCalls \cup ReviewCalls \cup ClassifyCalls
             /\ store = << >>
       \/ call \in SimilarCalls /\ store \in CallStores
    /\ pc = "call"
    /\ email = << >>
    /\ user_preferences = << >>
    /\ response = NotYet
    /\ caught = NoException
    /\ model_classification = NotYet
    /\ ai_classification = NotYet
    /\ embedding = NotYet
    /\ similar_emails = NotYet
    /\ result = NotYet
    /\ database = DbIdle
    /\ conc = NotYet
    /\ sync = NotYet

CallCalculateConfidence ==
    /\ pc = "call" /\ call.op = "calculate_confidence"
    /\ call' = Return(call, CalculateConfidence(call.ai_classification,
                                                call.user_rules_applied,
                                                call.similar_emails))
    /\ pc' = "returned"
    /\ UNCHANGED conc
    /\ UNCHANGED sync
    /\ UNCHANGED <<email, user_preferences, store, response, caught,
                   model_classification, ai_classification, embedding,
                   similar_emails, result, database>>

CallShouldRequireReview ==
    /\ pc = "call" /\ call.op = "should_require_review"
    /\ call' = Return(call, ShouldRequireReview(call.confidence))
    /\ pc' = "returned"
    /\ UNCHANGED conc
    /\ UNCHANGED sync
    /\ UNCHANGED <<email, user_preferences, store, response, caught,
                   model_classification, ai_classification, embedding,
                   similar_emails, result, database>>

\* an exception leaving the call is kept in `caught`
CallFindSimilarEmails ==
    /\ pc = "call" /\ call.op = "find_similar_emails"
    /\ \E d \in DbOutcomes :
         \E r \in FindSimilarEmails(d, store, [id |-> call.email_id],
                                    call.limit) :
             /\ database' = d
             /\ call' = Return(call, r.value)
             /\ caught' = IF r.raised THEN Exception(r.error) ELSE caught
    /\ pc' = "returned"
    /\ UNCHANGED conc
    /\ UNCHANGED sync
    /\ UNCHANGED <<email, user_preferences, store, response,
                   model_classification, ai_classification, embedding,
                   similar_emails, result>>

CallClassifyEmail ==
    /\ pc = "call" /\ call.op = "classify_email"
    /\ call' = Return(call, ClassifyEmail(call.response))
    /\ pc' = "returned"
    /\ UNCHANGED conc
    /\ UNCHANGED sync
    /\ UNCHANGED <<email, user_preferences, store, response, caught,
                   model_classification, ai_classification, embedding,
                   similar_emails, result, database>>

NextCalls ==
    CallCalculateConfidence \/ CallShouldRequireReview
        \/ CallFindSimilarEmails \/ CallClassifyEmail

SpecCalls == InitCalls /\ [][NextCalls]_vars

-----------------------------------------------------------------------------
(* Several invocations of process_email on one service object, for         *)
(* different messages, with their steps interleaved                        *)

\* the messages: two stored ones with different ids
ConcEmails ==
    << [id |-> 1, subject |-> <<"U","R","G","E","N","T">>,
        sender_email |-> SenderA],
       [id |-> 2, subject |-> <<"F","Y","I"," ","i","n","v">>,
        sender_email |-> SenderB] >>

ConcStores == {st \in Stores : Len(st) = MaxStore}

\* the preference dict is one object handed to every invocation
ConcPrefs ==
    { [whitelist_senders |-> {SenderA}, priority_rules |-> <<RuleSubject>>],
      [priority_rules |-> <<RuleNoPriority>>] }

ConcResponses ==
    {r \in ModelResponses :
        r.kind = "error" \/ (r.kind = "json" /\ Get(r.body, "priority", "") = "low")}

\* the locals of an invocation that has not started
Local(e, st) ==
    [email0 |-> e, store0 |-> st, email |-> e, pc |-> "start",
     response |-> NotYet, caught |-> NoException,
     ai_classification |-> NotYet, embedding |-> NotYet,
     database |-> DbIdle, similar_emails |-> NotYet, result |-> NotYet,
     overlapped |-> FALSE]

\* the Triage Result built at lines 54-59
TriageResult(cls, similar) ==
    LET confidence == CalculateConfidence(cls, TRUE, similar)
    IN  [classification |-> cls, confidence |-> confidence,
         requires_review |-> ShouldRequireReview(confidence),
         similar_emails |-> [k \in 1..Len(similar) |-> similar[k].id]]

\* the next step of an invocation with locals l, against table st and
\* preferences prefs: the locals it can have afterwards
LocalSteps(l, st, prefs) ==
    CASE l.pc = "start" ->
           {[l EXCEPT !.response = r, !.ai_classification = ClassifyEmail(r),
                      !.pc = "classified"] : r \in ConcResponses}
      [] l.pc = "classified" ->
           LET r == ApplyCustomRules(View(l.email), l.ai_classification, prefs)
           IN  IF r.raised
               THEN {[l EXCEPT !.ai_classification = r.value,
                               !.caught = Exception(r.error),
                               !.result = Fallback(r.error), !.pc = "done"]}
               ELSE {[l EXCEPT !.ai_classification = r.value,
                               !.pc = "ruled"]}
      [] l.pc = "ruled" ->
           {[l EXCEPT !.embedding = v, !.pc = "embedded"] :
               v \in EmbeddingOutcomes}
      [] l.pc = "embedded" ->
           UNION {{IF r.raised
                   THEN [l EXCEPT !.email = Attach(l.email, l.embedding),
                                  !.database = d,
                                  !.caught = Exception(r.error),
                                  !.result = Fallback(r.error), !.pc = "done"]
                   ELSE [l EXCEPT !.email = Attach(l.email, l.embedding),
                                  !.database = d,
                                  !.similar_emails = r.value,
                                  !.pc = "similar"] :
                      r \in FindSimilarEmails(d,
                               StoreAfterAttach(st, l.email, l.embedding),
                               l.email, DefaultLimit)} : d \in DbOutcomes}
      [] l.pc = "similar" ->
           {[l EXCEPT !.result = TriageResult(l.ai_classification,
                                              l.similar_emails),
                      !.pc = "done"]}
      [] OTHER -> {}

InFlight(l) == l.pc \notin {"start", "done"}

InitConcurrent ==
    /\ store \in ConcStores
    /\ user_preferences \in ConcPrefs
    /\ conc = [i \in DOMAIN ConcEmails |-> Local(ConcEmails[i], store)]
    /\ pc = "concurrent"
    /\ email = << >>
    /\ response = NotYet
    /\ caught = NoException
    /\ model_classification = NotYet
    /\ ai_classification = NotYet
    /\ embedding = NotYet
    /\ similar_emails = NotYet
    /\ result = NotYet
    /\ call = NotYet
    /\ database = DbIdle
    /\ sync = NotYet

\* one invocation takes its next step
ConcStep ==
    /\ \E i \in DOMAIN conc :
         \E l \in LocalSteps(conc[i], store, user_preferences) :
           /\ conc' = [conc EXCEPT ![i] =
                          [l EXCEPT !.overlapped =
                              @ \/ \E j \in DOMAIN conc \ {i} :
                                       InFlight(conc[j])]]
           /\ store' = IF conc[i].pc = "embedded"
                       THEN StoreAfterAttach(store, conc[i].email,
                                             conc[i].embedding)
                       ELSE store
    /\ UNCHANGED <<email, user_preferences, pc, response, caught,
                   model_classification, ai_classification, embedding,
                   similar_emails, result, call, database, sync>>

SpecConcurrent == InitConcurrent /\ [][ConcStep]_vars

-----------------------------------------------------------------------------
(* The workers: fetch_new_emails tasks, each in its own session, and the   *)
(* process_email tasks they queue, against one emails table                *)

\* fetch_new_emails tasks that run, one after another or overlapping
MaxSyncs == 3

\* SessionLocal() (app/core/database.py) hands out a transactional session:
\* db.flush() sends the INSERT, and the row stays private to the session's
\* transaction until db.commit()
SessionLocalTransactional == TRUE

\* what fetch_emails returned to a task, newest message first: the message_id
\* of each entry
Inboxes == { <<"m1">>, <<"m1", "m1">>, <<"m2", "m1">> }

\* a row of the emails table; xid is 0 once committed, else the task whose
\* open transaction inserted it
EmailRow(id, message_id, xid, processed) ==
    [id |-> id, message_id |-> message_id, xid |-> xid,
     processed_at |-> processed]

\* the table before the first sync: empty, or the older message stored and
\* processed
TablesBefore == { {}, {EmailRow(0, "m1", 0, TRUE)} }

\* the locals of a fetch_new_emails task at the head of its loop (lines 85-86)
FetchTask(emails_data) ==
    [pc |-> "loop", emails_data |-> emails_data, i |-> 1, active |-> TRUE,
     new_emails |-> 0, processed_ids |-> << >>]

\* the rows a query of task t sees: committed ones and its own
VisibleTo(t) == {r \in sync.emails : r.xid \in {0, t}}

InitSync ==
    /\ \E data \in [1..MaxSyncs -> Inboxes], rows \in TablesBefore :
         sync = [emails |-> rows,
                 next_id |-> 1,
                 fetch |-> [t \in 1..MaxSyncs |-> FetchTask(data[t])],
                 queue |-> << >>,
                 delayed |-> << >>,
                 finished |-> << >>]
    /\ pc = "sync"
    /\ email = << >>
    /\ user_preferences = << >>
    /\ store = << >>
    /\ response = NotYet
    /\ caught = NoException
    /\ model_classification = NotYet
    /\ ai_classification = NotYet
    /\ embedding = NotYet
    /\ similar_emails = NotYet
    /\ result = NotYet
    /\ call = NotYet
    /\ database = DbIdle
    /\ conc = NotYet

UnchangedBySync ==
    UNCHANGED <<email, user_preferences, store, pc, response, caught,
                model_classification, ai_classification, embedding,
                similar_emails, result, call, database, conc>>

\* the query for an existing row (sync_worker.py lines 88-95).  In a session
\* whose flush failed the query raises, and the handler of lines 114-116 goes
\* on to the next message.
FetchNewEmailsQuery ==
    /\ pc = "sync"
    /\ \E t \in DOMAIN sync.fetch :
         LET f == sync.fetch[t]
         IN  /\ f.pc = "loop"
             /\ f.i <= Len(f.emails_data)
             /\ sync' = [sync EXCEPT !.fetch[t] =
                    IF ~f.active
                    THEN [f EXCEPT !.i = @ + 1]
                    ELSE IF \E r \in VisibleTo(t) :
                               r.message_id = f.emails_data[f.i]
                    THEN [f EXCEPT !.i = @ + 1]
                    ELSE [f EXCEPT !.pc = "flush"]]
    /\ UnchangedBySync

\* db.add, db.flush and process_email.delay (lines 96-112).  message_id is
\* unique (models/email.py line 16): the INSERT waits while another open
\* transaction holds a row of the same message_id, and fails if a committed
\* row has it; the failed flush rolls the transaction back and leaves the
\* session unusable until db.rollback(), which the handler of lines 114-116
\* does not call.
FetchNewEmailsStore ==
    /\ pc = "sync"
    /\ \E t \in DOMAIN sync.fetch :
         LET f   == sync.fetch[t]
             mid == f.emails_data[f.i]
             id  == sync.next_id
         IN  /\ f.pc = "flush"
             /\ ~\E r \in sync.emails :
                    r.message_id = mid /\ r.xid \notin {0, t}
             /\ IF \E r \in sync.emails : r.message_id = mid /\ r.xid = 0
                THEN sync' = [sync EXCEPT
                        !.emails = {r \in @ : r.xid # t},
                        !.fetch[t] = [f EXCEPT !.pc = "loop", !.i = @ + 1,
                                               !.active = FALSE]]
                ELSE sync' = [sync EXCEPT
                        !.emails = @ \cup
                            {EmailRow(id, mid,
                                      IF SessionLocalTransactional
                                      THEN t ELSE 0,
                                      FALSE)},
                        !.next_id = @ + 1,
                        !.queue = Append(@, id),
                        !.delayed = Append(@, [email_id |-> id,
                                               message_id |-> mid]),
                        !.fetch[t] = [f EXCEPT
                            !.pc = "loop", !.i = @ + 1,
                            !.new_emails = @ + 1,
                            !.processed_ids = Append(@, id)]]
    /\ UnchangedBySync

\* db.commit() after the loop and the return (lines 118-127); in a session
\* whose flush failed it raises, and the handler of lines 129-132 rolls back
\* and re-raises
FetchNewEmailsCommit ==
    /\ pc = "sync"
    /\ \E t \in DOMAIN sync.fetch :
         LET f == sync.fetch[t]
         IN  /\ f.pc = "loop"
             /\ f.i > Len(f.emails_data)
             /\ IF f.active
                THEN sync' = [sync EXCEPT
                        !.emails = {IF r.xid = t
                                    THEN [r EXCEPT !.xid = 0] ELSE r :
                                    r \in @},
                        !.fetch[t] = [f EXCEPT !.pc = "returned"]]
                ELSE sync' = [sync EXCEPT
                        !.emails = {r \in @ : r.xid # t},
                        !.fetch[t] = [f EXCEPT !.pc = "raised"]]
    /\ UnchangedBySync

\* a worker runs the process_email task at the head of the queue, in its own
\* session (email_processor.py lines 38-73)
ProcessEmailTask ==
    /\ pc = "sync"
    /\ sync.queue # << >>
    /\ LET email_id == Head(sync.queue)
       IN  IF \E r \in sync.emails : r.id = email_id /\ r.xid = 0
           THEN sync' = [sync EXCEPT
                   !.queue = Tail(@),
                   !.emails = {IF r.id = email_id
                               THEN [r EXCEPT !.processed_at = TRUE]
                               ELSE r : r \in @},
                   !.finished = Append(@, [email_id |-> email_id,
                                           status |-> "processed"])]
           ELSE sync' = [sync EXCEPT
                   !.queue = Tail(@),
                   !.finished = Append(@, [email_id |-> email_id,
                                           error |-> "Email not found"])]
    /\ UnchangedBySync

NextSync ==
    \/ FetchNewEmailsQuery
    \/ FetchNewEmailsStore
    \/ FetchNewEmailsCommit
    \/ ProcessEmailTask

SpecSync == InitSync /\ [][NextSync]_vars

-----------------------------------------------------------------------------
(* Properties of the rule engine (checked under SpecEngine)                *)

TheView == View(email)

TheRules == Get(user_preferences, "priority_rules", << >>)

OnAllowList ==
    TheView.sender_email \in Get(user_preferences, "whitelist_senders", {})

OnDenyList ==
    TheView.sender_email \in Get(user_preferences, "blacklist_senders", {})

MatchingRules == {i \in 1..Len(TheRules) : MatchesRule(TheView, TheRules[i])}

LastMatching == CHOOSE i \in MatchingRules : \A j \in MatchingRules : j <= i

\* a keyword of bucket i occurs in the lower-cased subject
BucketHit(i) ==
    \E k \in 1..Len(priority_keywords[i].keywords) :
        Contains(Lower(TheView.subject), priority_keywords[i].keywords[k])

NoKeyword == \A i \in 1..Len(priority_keywords) : ~BucketHit(i)

\* apply_custom_rules has returned (it did not raise)
EngineReturned == pc = "ruled"

\* the classification entering the keyword stage
EnteringKeywords ==
    RuleStage(TheView, ListStage(TheView, model_classification,
                                 user_preferences), user_preferences)

C5_DenyAlwaysLow ==
    (EngineReturned /\ OnDenyList /\ ~OnAllowList)
    => ai_classification.priority = "low"

\* C5 amended: a sender on the deny-list and not on the allow-list ends with
\* priority low whenever no custom rule matches and no keyword of the urgent,
\* high or medium bucket occurs in the subject.
C5_DenyLowUnlessOverridden ==
    (EngineReturned /\ OnDenyList /\ ~OnAllowList /\ MatchingRules = {}
        /\ ~BucketHit(1) /\ ~BucketHit(2) /\ ~BucketHit(3))
    => ai_classification.priority = "low"

C5_Witness ==
    /\ EngineReturned /\ OnDenyList /\ ~OnAllowList /\ MatchingRules = {}
    /\ ~BucketHit(1) /\ ~BucketHit(2) /\ ~BucketHit(3) /\ BucketHit(4)
    /\ Len(TheRules) > 0
    /\ model_classification.priority = "urgent"

\* C6: the keyword stage never lowers priority: the level of the returned
\* priority is at least the level of the priority that entered the stage.
C6_KeywordsNeverLower ==
    EngineReturned
    => PriorityLevel(ai_classification.priority)
           >= PriorityLevel(EnteringKeywords.value.priority)

C6_Witness ==
    /\ EngineReturned
    /\ BucketHit(4) /\ ~BucketHit(1) /\ ~BucketHit(2) /\ ~BucketHit(3)
    /\ EnteringKeywords.value.priority = "urgent"
    /\ ai_classification.priority = "urgent"

\* C7: every matching custom rule is applied in list order without stopping
\* at the first match: after the custom-rule stage the priority is the target
\* priority of the last matching rule (and the returned priority is what the
\* keyword stage makes of it).
C7_LastMatchingRuleWins ==
    (EngineReturned /\ MatchingRules # {})
    => /\ "priority" \in DOMAIN TheRules[LastMatching]
       /\ EnteringKeywords.value.priority = TheRules[LastMatching].priority
       /\ PriorityLevel(ai_classification.priority)
              >= PriorityLevel(TheRules[LastMatching].priority)
       /\ (NoKeyword =>
              ai_classification.priority = TheRules[LastMatching].priority)

C7_Witness ==
    /\ EngineReturned /\ NoKeyword
    /\ \E i, j \in MatchingRules :
           /\ i < j /\ j = LastMatching
           /\ TheRules[i].priority # TheRules[j].priority
    /\ ai_classification.priority = TheRules[LastMatching].priority

\* C8: conflicts between stages are resolved last-write-wins: when a custom
\* rule matches, the priority entering the keyword stage is that of the last
\* matching rule whatever the allow-list and the deny-list say, so with no
\* keyword in the subject a matching rule with target low leaves an
\* allow-listed sender at low.
C8_RulesOverrideLists ==
    (EngineReturned /\ MatchingRules # {} /\ NoKeyword
        /\ (OnAllowList \/ OnDenyList))
    => /\ "priority" \in DOMAIN TheRules[LastMatching]
       /\ ai_classification.priority = TheRules[LastMatching].priority
       /\ (TheRules[LastMatching].priority = "low"
              => ai_classification.priority # "high")

C8_Witness ==
    /\ EngineReturned /\ OnAllowList /\ ~OnDenyList /\ NoKeyword
    /\ MatchingRules # {}
    /\ TheRules[LastMatching].priority = "low"
    /\ ai_classification.priority = "low"

\* the rule's sender pattern, if it has one, compiles
PatternCompiles(rule) ==
    ~("sender_pattern" \in DOMAIN rule /\ ReMalformed(rule.sender_pattern))

WithoutMalformed ==
    [f \in DOMAIN user_preferences |->
        IF f = "priority_rules"
        THEN SelectSeq(user_preferences[f], PatternCompiles)
        ELSE user_preferences[f]]

\* C9: a custom rule whose sender pattern does not compile is treated as not
\* matching: the call raises or returns exactly as it would with that rule
\* removed from the sequence, and returns the same classification, so the
\* rule changes nothing and the rules after it are still applied.
C9_MalformedRuleSkipped ==
    pc # "classified"
    => LET o == ApplyCustomRules(TheView, model_classification,
                                 WithoutMalformed)
       IN  /\ EngineReturned <=> ~o.raised
           /\ ai_classification = o.value

C9_Witness ==
    /\ EngineReturned
    /\ Len(TheRules) = 2
    /\ ~PatternCompiles(TheRules[1])
    /\ MatchingRules = {2}
    /\ ai_classification.priority # model_classification.priority

\* apply_custom_rules called again on the dict it has just mutated
AppliedAgain == ApplyCustomRules(TheView, ai_classification, user_preferences)

\* C20: the rule engine is deterministic and idempotent: applied to its own
\* output with the same message and preferences it changes nothing; and where
\* it raised, it raises again with the same error.
C20_RuleEngineIdempotent ==
    /\ EngineReturned => AppliedAgain = Returned(ai_classification)
    /\ caught.raised => /\ AppliedAgain.raised
                        /\ AppliedAgain.error = caught.error
                        /\ AppliedAgain.value = ai_classification

\* the first application changed the dict in the list stage and again in the
\* keyword stage
C20_Witness ==
    /\ EngineReturned
    /\ OnAllowList /\ MatchingRules = {}
    /\ model_classification.priority = "low"
    /\ ai_classification.priority = "urgent"
    /\ AppliedAgain.value.priority = "urgent"

\* the levels of the buckets that have a keyword in the subject
HitLevels ==
    {PriorityLevel(priority_keywords[i].priority) :
        i \in {j \in 1..Len(priority_keywords) : BucketHit(j)}}

Maximum(S) == CHOOSE x \in S : \A y \in S : y <= x

\* C22: after the keyword stage the priority level is the maximum of the
\* level entering the stage and the levels of all buckets with a keyword in
\* the subject (compared in lower case); a subject with a word of the urgent
\* bucket ends with priority urgent whatever the lists and custom rules did.
C22_KeywordStageTakesMaximum ==
    EngineReturned
    => /\ PriorityLevel(ai_classification.priority)
              = Maximum({PriorityLevel(EnteringKeywords.value.priority)}
                            \cup HitLevels)
       /\ BucketHit(1) => ai_classification.priority = "urgent"

\* the subject "URGENT" for a sender on the deny-list whose last matching
\* rule set low
C22_Witness ==
    /\ EngineReturned
    /\ TheView.subject = <<"U","R","G","E","N","T">>
    /\ OnDenyList /\ MatchingRules # {}
    /\ EnteringKeywords.value.priority = "low"
    /\ ai_classification.priority = "urgent"

\* C23: a sender on the allow-list and not on the deny-list, with no matching
\* custom rule and no keyword of the urgent bucket in the subject, ends with
\* priority high whatever priority the model assigned.
C23_AllowListGivesHigh ==
    (EngineReturned /\ OnAllowList /\ ~OnDenyList /\ MatchingRules = {}
        /\ ~BucketHit(1))
    => ai_classification.priority = "high"

\* the model said urgent, the subject has a keyword of the high bucket
C23_Witness ==
    /\ EngineReturned /\ OnAllowList /\ ~OnDenyList /\ MatchingRules = {}
    /\ ~BucketHit(1) /\ BucketHit(2) /\ Len(TheRules) > 0
    /\ model_classification.priority = "urgent"
    /\ ai_classification.priority = "high"

\* the slices of a text
Slices(t) == {SubSeq(t, a, b) : a \in 1..Len(t) + 1, b \in 0..Len(t)}

\* the pattern, character by character, fits the text ("." fits anything)
Fits(p, t) ==
    /\ Len(p) = Len(t)
    /\ \A j \in 1..Len(p) : p[j] = "." \/ p[j] = t[j]

\* the rule's sender pattern is found in the sender address
SenderConditionHolds(rule) ==
    /\ PatternCompiles(rule)
    /\ \E t \in Slices(TheView.sender_email) : Fits(rule.sender_pattern, t)

\* the rule's substring is found in the subject, letter case apart
SubjectConditionHolds(rule) ==
    \E t \in Slices(TheView.subject) : Lower(t) = Lower(rule.subject_contains)

EveryConditionHolds(rule) ==
    /\ "sender_pattern" \in DOMAIN rule => SenderConditionHolds(rule)
    /\ "subject_contains" \in DOMAIN rule => SubjectConditionHolds(rule)

Unconditional(rule) ==
    DOMAIN rule \cap {"sender_pattern", "subject_contains"} = {}

\* C24: a custom rule matches a message exactly when every condition it
\* declares holds (sender pattern found in the sender address, substring
\* found in the subject without regard to case); a rule without condition
\* matches every message, so when it is the last rule of the sequence the
\* priority leaving the custom-rule stage is its target priority.
C24_MatchesIffEveryCondition ==
    pc # "classified"
    => /\ \A i \in 1..Len(TheRules) :
              i \in MatchingRules <=> EveryConditionHolds(TheRules[i])
       /\ \A i \in 1..Len(TheRules) :
              Unconditional(TheRules[i]) => i \in MatchingRules
       /\ (EngineReturned /\ Len(TheRules) > 0
              /\ Unconditional(TheRules[Len(TheRules)]))
          => EnteringKeywords.value.priority
                 = TheRules[Len(TheRules)].priority

\* a rule with both conditions matches, then a rule without condition
C24_Witness ==
    /\ EngineReturned /\ Len(TheRules) = 2
    /\ DOMAIN TheRules[1] \cap {"sender_pattern", "subject_contains"}
           = {"sender_pattern", "subject_contains"}
    /\ Unconditional(TheRules[2])
    /\ MatchingRules = {1, 2}
    /\ EnteringKeywords.value.priority = TheRules[2].priority
    /\ TheRules[1].priority # TheRules[2].priority

\* the matching rules that declare a target category
DeclaringRules == {i \in MatchingRules : "category" \in DOMAIN TheRules[i]}

LastDeclaring == CHOOSE i \in DeclaringRules : \A j \in DeclaringRules : j <= i

\* the preferences with the non-matching rules taken out of the sequence
OnlyMatching ==
    [f \in DOMAIN user_preferences |->
        IF f = "priority_rules"
        THEN [k \in 1..Cardinality(MatchingRules) |->
                 TheRules[CHOOSE i \in MatchingRules :
                     Cardinality({j \in MatchingRules : j <= i}) = k]]
        ELSE user_preferences[f]]

\* C25: a matching custom rule overwrites the category only if it declares a
\* target category: after the custom-rule stage (and in what is returned) the
\* category is the target of the last matching rule that declares one, or the
\* input category when none does; rules that do not match change neither
\* priority nor category.
C25_CategoryOnlyIfDeclared ==
    EngineReturned
    => /\ EnteringKeywords.value.category = ai_classification.category
       /\ ai_classification.category =
              IF DeclaringRules = {} THEN model_classification.category
              ELSE TheRules[LastDeclaring].category
       /\ ApplyCustomRules(TheView, model_classification, OnlyMatching)
              = Returned(ai_classification)

\* two rules match; the first declares a category, the last does not
C25_Witness ==
    /\ EngineReturned
    /\ MatchingRules = {1, 2} /\ DeclaringRules = {1}
    /\ ai_classification.category = TheRules[1].category
    /\ ai_classification.category # model_classification.category
    /\ EnteringKeywords.value.priority = TheRules[2].priority

\* the fields of the classification the rule engine has no business with
FrameFields == {"urgency_score", "sentiment", "requires_action", "reasoning"}

FrameKept ==
    /\ DOMAIN ai_classification = DOMAIN model_classification
    /\ \A f \in FrameFields : ai_classification[f] = model_classification[f]

\* C28: apply_custom_rules changes at most priority and category:
\* urgency_score, sentiment, requires_action and reasoning of its output (or
\* of the dict it was mutating when it raised) are those of its input, and no
\* step changes the preference set.
C28_OnlyPriorityAndCategoryChange ==
    /\ [](pc # "classified" => FrameKept)
    /\ [][user_preferences' = user_preferences]_vars

\* priority and category both changed
C28_Witness ==
    /\ EngineReturned /\ FrameKept
    /\ ai_classification.priority # model_classification.priority
    /\ ai_classification.category # model_classification.category
    /\ "priority_rules" \in DOMAIN user_preferences
    /\ Len(user_preferences.priority_rules) = 2

-----------------------------------------------------------------------------
(* Properties of process_email (checked under Spec)                        *)

Returns == pc = "done"

\* the completion call of step 1 failed: it raised, or its content is not
\* JSON, or its urgency_score does not convert
ClassifierFailed ==
    /\ pc # "start"
    /\ \/ response.kind \in {"error", "text"}
       \/ /\ response.kind = "json"
          /\ "urgency_score" \in DOMAIN response.body
          /\ "text" \in DOMAIN response.body.urgency_score

\* C2 as stated: when the classifier call fails, the Triage Result carries
\* exactly other/medium/0.5/neutral/false with reasoning naming the failure,
\* confidence 0.0 and requires_review true.
C2_ClassifierFailureGivesFallbackResult ==
    (Returns /\ ClassifierFailed)
    => /\ result.classification.category = "other"
       /\ result.classification.priority = "medium"
       /\ result.classification.urgency_score = 50
       /\ result.classification.sentiment = "neutral"
       /\ result.classification.requires_action = FALSE
       /\ result.classification.reasoning.prefix # ""
       /\ result.confidence = 0
       /\ result.requires_review = TRUE

\* C2 amended: when the classifier call fails, classify_email returns exactly
\* other/medium/0.5/neutral/false with reasoning naming the failure, and
\* process_email goes on with it: unless a later step raises (which gives the
\* "Processing failed" result with confidence 0.0 and requires_review true),
\* the Triage Result carries that default as the rule engine rewrote it (only
\* priority and category can differ), a confidence of at least 0.7 + 0.2 and
\* requires_review false.
C2_ClassifierFailureContinues ==
    (Returns /\ ClassifierFailed)
    => /\ model_classification.category = "other"
       /\ model_classification.priority = "medium"
       /\ model_classification.urgency_score = 50
       /\ model_classification.sentiment = "neutral"
       /\ model_classification.requires_action = FALSE
       /\ model_classification.reasoning.prefix = "Classification failed: "
       /\ model_classification.reasoning.text # ""
       /\ (response.kind = "error"
              => model_classification.reasoning.text = response.error)
       /\ IF caught.raised
          THEN /\ result.confidence = 0
               /\ result.requires_review = TRUE
               /\ result.classification.reasoning.prefix = "Processing failed: "
          ELSE /\ result.classification
                      = ApplyCustomRules(View(email), model_classification,
                                         user_preferences).value
               /\ result.classification.urgency_score = 50
               /\ result.classification.sentiment = "neutral"
               /\ result.classification.requires_action = FALSE
               /\ result.classification.reasoning
                      = model_classification.reasoning
               /\ result.confidence >= BaseConfidence + RulesBoost
               /\ result.requires_review = FALSE

C2_Witness ==
    /\ Returns /\ ClassifierFailed /\ ~caught.raised
    /\ response.kind = "error"
    /\ result.classification.priority = "urgent"
    /\ result.confidence > 0
    /\ result.requires_review = FALSE

\* C3: an exception that reaches the except branch of process_email, from
\* whichever step, gives exactly the fixed result: other/medium/0.5/neutral/
\* false with reasoning "Processing failed: " followed by the text of the
\* exception, confidence 0.0, requires_review true and no similar emails;
\* nothing computed by the earlier steps is in it.
C3_ExceptionGivesSafeHarbor ==
    caught.raised
    => /\ Returns
       /\ result = [classification |->
                        [category |-> "other", priority |-> "medium",
                         urgency_score |-> 50, sentiment |-> "neutral",
                         requires_action |-> FALSE,
                         reasoning |-> [prefix |-> "Processing failed: ",
                                        text |-> caught.error]],
                    confidence |-> 0, requires_review |-> TRUE,
                    similar_emails |-> << >>]

C3_Witness ==
    /\ Returns /\ caught.raised
    /\ caught.error = "'priority'"
    /\ ai_classification.priority = "low"
    /\ ai_classification.category = "work"
    /\ result.classification.priority = "medium"
    /\ result.classification.category = "other"

\* C4: in every Triage Result the priority is one of low/medium/high/urgent,
\* the category one of the six closed values, and urgency_score and
\* confidence lie in [0.0, 1.0].
C4_ResultInDomain ==
    Returns
    => /\ result.classification.priority \in Priorities
       /\ result.classification.category \in Categories
       /\ result.classification.urgency_score \in 0..100
       /\ result.confidence \in 0..One

\* C10: no rule-evaluation error leaves the rule engine: process_email never
\* falls back because a matching rule declares no target priority.
C10_BadRuleAbsorbed ==
    ~(caught.raised /\ caught.error = "'priority'")

\* the rule engine changed the priority or the category it was handed
RulesChangedClassification ==
    \/ result.classification.priority # model_classification.priority
    \/ result.classification.category # model_classification.category

\* C11: the reasoning of the returned classification reflects the last rule
\* stage that changed it: whenever the rule engine changed priority or
\* category, the returned reasoning is no longer the reasoning classify_email
\* produced.
C11_ReasoningFollowsRules ==
    (Returns /\ ~caught.raised /\ RulesChangedClassification)
    => result.classification.reasoning # model_classification.reasoning

\* the row of the message being processed, as the lookup's own session reads it
StoredMessage == "id" \in DOMAIN email /\ email.id \in DOMAIN store

\* C12: the embedding is attached before the similarity lookup and the lookup
\* of the same invocation observes it: once its queries have run, the row it
\* read under the message's id carries the embedding just attached (so a
\* message with no stored embedding does not end in the 'no embedding' branch).
C12_LookupSeesAttachedEmbedding ==
    (pc \in {"similar", "done"} /\ embedding # NotYet /\ database = "ok")
    => /\ "embedding" \in DOMAIN email
       /\ email.embedding = embedding
       /\ StoredMessage
       /\ "embedding" \in DOMAIN store[email.id]
       /\ store[email.id].embedding = embedding

ResultFields ==
    {"classification", "confidence", "requires_review", "similar_emails"}

ClassificationFields ==
    {"category", "priority", "urgency_score", "sentiment", "requires_action",
     "reasoning"}

\* C13: process_email is total: whatever the message (all of subject, sender
\* and id may be absent), the preferences and the failures of the model call,
\* the rule engine, the embedding call and the store, every step that has not
\* returned can be taken, and what is returned is a dict with exactly the four
\* result fields whose classification has exactly the six fields.
C13_ProcessEmailTotal ==
    /\ ~Returns => ENABLED Next
    /\ Returns => /\ DOMAIN result = ResultFields
                  /\ DOMAIN result.classification = ClassificationFields

C13_Witness ==
    /\ Returns /\ ~caught.raised
    /\ email = [embedding |-> ZeroVector]
    /\ response.kind = "error"
    /\ DOMAIN result = ResultFields
    /\ result.similar_emails = << >>

\* step 4 has called find_similar_emails
LookupMade == database # DbIdle

\* the row the lookup reads exists and has an embedding
QueryRowEmbedded ==
    StoredMessage /\ "embedding" \in DOMAIN store[email.id]

\* C19: find_similar_emails never raises: for an unknown message, a message
\* without stored embedding, an empty store or a failing query it returns the
\* empty sequence, and process_email then returns on its normal path with no
\* similar messages rather than the fallback.
C19_LookupNeverRaises ==
    LookupMade
    => /\ ~caught.raised
       /\ pc \in {"similar", "done"}
       /\ (database = "query_error" \/ store = << >> \/ ~QueryRowEmbedded)
          => similar_emails = << >>
       /\ Returns => /\ result.classification = ai_classification
                     /\ result.similar_emails =
                            [k \in 1..Len(similar_emails) |->
                                similar_emails[k].id]
                     /\ result.confidence >= BaseConfidence + RulesBoost
                     /\ ~result.requires_review

\* the query fails for a stored message that has an embedding and neighbours
C19_Witness ==
    /\ Returns /\ database = "query_error"
    /\ QueryRowEmbedded
    /\ \E i \in DOMAIN store : i # email.id /\ "embedding" \in DOMAIN store[i]
    /\ result.similar_emails = << >>
    /\ result.classification.reasoning.prefix # "Processing failed: "

\* process_email returned from its try block, not from its except block
NonFallback == Returns /\ ~caught.raised

\* no neighbour of the lookup has the final category: the similarity boost is
\* (0 / n) * 0.1 = 0.0, or there is no neighbour and nothing is added
NoNeighbourMatches ==
    \A k \in 1..Len(similar_emails) :
        similar_emails[k].category # ai_classification.category

\* the double 0.9 of the bound: 0x1.ccccccccccccdp-1
Double09 == [m |-> HexBits(<<1, 12, 12, 12, 12, 12, 12, 12, 12, 12, 12, 12,
                             12, 13>>),
             e |-> -53]

\* 0.9 <= confidence, in the doubles the code computes: with no matching
\* neighbour the confidence is the double 0.7 + 0.2; with a matching one it
\* exceeds it by at least 0.1 / MaxNeighbours, far more than a rounding error
AtLeastPointNine ==
    IF result.confidence = BaseConfidence + RulesBoost
    THEN ~DoubleLess(ConfidenceWithoutMatch, Double09)
    ELSE result.confidence > BaseConfidence + RulesBoost

\* C26 as stated: every Triage Result of the non-fallback path has
\* 0.9 <= confidence <= 1.0 and requires_review false, and requires_review is
\* true if and only if the fallback was taken (confidence 0.0).
C26_NonFallbackAtLeastPointNine ==
    Returns
    => /\ NonFallback => /\ AtLeastPointNine
                         /\ result.confidence <= One
                         /\ result.requires_review = FALSE
       /\ (result.requires_review = TRUE) <=> caught.raised
       /\ caught.raised => result.confidence = 0

\* C26 amended: every Triage Result of the non-fallback path has a confidence
\* between the double 0.7 + 0.2, which is 0.8999999999999999 and below 0.9,
\* and 1.0, and requires_review false; the confidence reaches 0.9 exactly when
\* a neighbour shares the final category; requires_review is true if and only
\* if the fallback was taken (confidence 0.0).
C26_NonFallbackAtLeastBasePlusBoost ==
    Returns
    => /\ NonFallback => /\ result.confidence >= BaseConfidence + RulesBoost
                         /\ (result.confidence = BaseConfidence + RulesBoost)
                                <=> NoNeighbourMatches
                         /\ AtLeastPointNine <=> ~NoNeighbourMatches
                         /\ result.confidence <= One
                         /\ result.requires_review = FALSE
       /\ (result.requires_review = TRUE) <=> caught.raised
       /\ caught.raised => result.confidence = 0

C26_Witness ==
    /\ NonFallback
    /\ similar_emails # << >>
    /\ NoNeighbourMatches
    /\ result.confidence = BaseConfidence + RulesBoost
    /\ result.requires_review = FALSE

\* the neighbours that have the category of the returned classification
SharingFinalCategory ==
    {k \in 1..Len(similar_emails) :
        similar_emails[k].category = result.classification.category}

\* the confidence counts the neighbours of the final category
ConfidenceFromFinalCategory ==
    /\ result.classification = ai_classification
    /\ IF similar_emails = << >>
       THEN result.confidence = BaseConfidence + RulesBoost
       ELSE Len(similar_emails) * result.confidence
                = Len(similar_emails) * (BaseConfidence + RulesBoost)
                  + Cardinality(SharingFinalCategory) * SimilarityWeight
    /\ result.requires_review = (result.confidence < ReviewThreshold)

\* one step of process_email: the step taken is the one that follows the last
\* one that returned, it uses what the earlier steps left, and it leaves what
\* they computed alone
StepInOrder ==
    /\ pc = "start"
          => /\ pc' = "classified"
             /\ model_classification' # NotYet
             /\ ai_classification' = model_classification'
             /\ embedding' = NotYet /\ result' = NotYet
    /\ pc = "classified"
          => /\ pc' \in {"ruled", "done"}
             /\ pc' = "ruled"
                   => ai_classification'
                          = ApplyCustomRules(View(email), model_classification,
                                             user_preferences).value
             /\ model_classification' = model_classification
             /\ embedding' = NotYet
    /\ pc = "ruled"
          => /\ pc' = "embedded"
             /\ embedding' # NotYet
             /\ "embedding" \in DOMAIN email' => email' = email
             /\ ai_classification' = ai_classification
             /\ result' = NotYet
    /\ pc = "embedded"
          => /\ pc' \in {"similar", "done"}
             /\ email'.embedding = embedding
             /\ database = DbIdle /\ database' # DbIdle
             /\ embedding' = embedding
             /\ ai_classification' = ai_classification
    /\ pc = "similar"
          => /\ pc' = "done"
             /\ similar_emails' = similar_emails
             /\ ai_classification' = ai_classification
             /\ result' # NotYet
    /\ pc # "done"

\* C27: the steps of one process_email invocation occur in the order classify,
\* apply rules, embed, attach embedding, similarity lookup, confidence, review
\* decision, each after the previous one returned, and the confidence step
\* compares the neighbours with the final (post-rule) category, not with the
\* category the model gave.
C27_StepsInOrderFinalCategory ==
    /\ []((Returns /\ ~caught.raised) => ConfidenceFromFinalCategory)
    /\ [][StepInOrder]_vars

C27_Witness ==
    /\ Returns /\ ~caught.raised
    /\ model_classification.category # ai_classification.category
    /\ \E k \in 1..Len(similar_emails) :
          similar_emails[k].category = model_classification.category
    /\ \E k \in 1..Len(similar_emails) :
          similar_emails[k].category # model_classification.category
    /\ result.confidence < One

\* the completion call ended by the client's timeout
ModelTimedOut ==
    /\ response # NotYet /\ response.kind = "error"
    /\ response.error = "Request timed out."

\* the similarity query was cancelled by the database (one of the errors the
\* query can raise)
QueryTimedOut == database = "query_error"

\* C16: a stall of the model call or of the vector query cannot hang
\* process_email: the call is cut by a timeout and the invocation then returns
\* the safe-harbor fallback result (confidence 0.0, review required,
\* reasoning "Processing failed: ...").
C16_TimeoutGivesFallback ==
    (Returns /\ (ModelTimedOut \/ QueryTimedOut))
    => /\ result.confidence = 0
       /\ result.requires_review
       /\ result.classification.reasoning.prefix = "Processing failed: "

-----------------------------------------------------------------------------
(* Properties of the direct calls (checked under SpecCalls)                *)

Called(op) == pc = "returned" /\ call.op = op

\* m of the claim: the neighbours whose stored category is the
\* classification's category
MatchingNeighbours ==
    Cardinality({i \in 1..Len(call.similar_emails) :
        /\ "category" \in DOMAIN call.similar_emails[i]
        /\ call.similar_emails[i].category = call.ai_classification.category})

\* (0.7 + (0.2 if rules applied) + 0.1 * m / n) * 10 * n, in units of `One`
UncappedTimesTenN(n, m) ==
    One * (7 * n + (IF call.user_rules_applied THEN 2 * n ELSE 0) + m)

\* C14: calculate_confidence returns min(1.0, 0.7 + (0.2 if rules_applied)
\* + 0.1 * m/n) with n the number of similar messages and m the number of
\* them whose category equals the classification's (no last term when
\* n = 0), and the value lies in [0.0, 1.0].
C14_ConfidenceFormula ==
    Called("calculate_confidence")
    => LET n == Len(call.similar_emails)
           m == MatchingNeighbours
       IN  /\ 0 <= call.ret /\ call.ret <= One
           /\ n = 0 => call.ret * 10 = Min(UncappedTimesTenN(1, 0), One * 10)
           /\ n > 0 => call.ret * 10 * n
                           = Min(UncappedTimesTenN(n, m), One * 10 * n)

\* rules applied, three neighbours, two of them matching: 0.9 + (2/3) * 0.1
C14_Witness ==
    /\ Called("calculate_confidence")
    /\ call.user_rules_applied
    /\ Len(call.similar_emails) = 3
    /\ MatchingNeighbours = 2
    /\ call.ret * 30 = One * 29

\* C15: should_require_review(score) is true exactly when score < 0.6: 0.6
\* itself and 1.0 do not require review, every score below 0.6 does.
C15_ReviewIffBelowThreshold ==
    Called("should_require_review")
    => (call.ret <=> call.confidence * 10 < One * 6)

C15_Witness ==
    /\ Called("should_require_review")
    /\ call.confidence * 10 = One * 6
    /\ call.ret = FALSE

\* the rows a lookup for call.email_id may return: another message, with an
\* embedding
Eligible ==
    {i \in DOMAIN store : i # call.email_id /\ "embedding" \in DOMAIN store[i]}

QueryHasEmbedding ==
    /\ call.email_id \in DOMAIN store
    /\ "embedding" \in DOMAIN store[call.email_id]

ReturnedIds == {call.ret[k].id : k \in 1..Len(call.ret)}

FieldDefaults ==
    [category |-> "other", priority |-> "medium",
     urgency_score |-> [num |-> 50], sentiment |-> "neutral",
     requires_action |-> FALSE]

\* the returned dict has, field by field, the member of the response where
\* there is one and the default where there is none
FieldByField ==
    \A f \in DOMAIN FieldDefaults :
        LET v == IF f = "urgency_score" THEN [num |-> call.ret[f]]
                 ELSE call.ret[f]
        IN  v = Get(call.response.body, f, FieldDefaults[f])

\* the returned dict is the complete default and its reasoning names a failure
CompleteDefault ==
    /\ \A f \in DOMAIN FieldDefaults \ {"urgency_score"} :
           call.ret[f] = FieldDefaults[f]
    /\ call.ret.urgency_score = FieldDefaults.urgency_score.num
    /\ call.ret.reasoning.prefix = "Classification failed: "
    /\ call.ret.reasoning.text # ""

UrgencyConverts ==
    "urgency_score" \in DOMAIN call.response.body
    => "num" \in DOMAIN call.response.body.urgency_score

\* C21 as stated: classify_email never raises; a JSON response gets the
\* default of each missing field and keeps every present one; a non-JSON
\* response or a failed call gives the complete default classification.
C21_MissingFieldsDefaulted ==
    Called("classify_email")
    => /\ DOMAIN call.ret = ClassificationFields
       /\ IF call.response.kind = "json" THEN FieldByField
          ELSE CompleteDefault

\* C21 amended: present fields are kept only when urgency_score, if present,
\* converts to a float; a response whose urgency_score does not convert is
\* treated like a non-JSON response: complete default, reasoning naming the
\* failure.
C21_MissingFieldsDefaultedIfConvertible ==
    Called("classify_email")
    => /\ DOMAIN call.ret = ClassificationFields
       /\ IF call.response.kind = "json" /\ UrgencyConverts
          THEN FieldByField
          ELSE CompleteDefault

\* a response with only category and sentiment
C21_Witness ==
    /\ Called("classify_email")
    /\ call.response.kind = "json"
    /\ DOMAIN call.response.body = {"category", "sentiment"}
    /\ call.ret.category = "work" /\ call.ret.sentiment = "positive"
    /\ call.ret.priority = "medium" /\ call.ret.urgency_score = 50
    /\ call.ret.requires_action = FALSE

-----------------------------------------------------------------------------
(* Properties of the workers (checked under SpecSync)                      *)

\* the rows other sessions can see
Committed == {r \in sync.emails : r.xid = 0}

\* every fetch_new_emails task has ended and no process_email task is queued
Quiescent ==
    /\ \A t \in DOMAIN sync.fetch : sync.fetch[t].pc \in {"returned", "raised"}
    /\ sync.queue = << >>

\* a process_email task for this id returned 'Email not found'
TookNotFound(id) ==
    \E k \in 1..Len(sync.finished) :
        /\ sync.finished[k].email_id = id
        /\ "error" \in DOMAIN sync.finished[k]

\* C29: a process_email task queued by fetch_new_emails never takes its
\* 'Email not found' branch for an email that fetch_new_emails stored, under
\* any interleaving of the fetch task and the worker, and so every stored new
\* email has processed_at set once the tasks have run.
C29_QueuedTaskFindsRow ==
    /\ \A r \in Committed : ~TookNotFound(r.id)
    /\ Quiescent => \A r \in Committed : r.processed_at

\* the message_ids the tasks fetched
FetchedMessages ==
    UNION {{sync.fetch[t].emails_data[k] :
                k \in 1..Len(sync.fetch[t].emails_data)} :
           t \in DOMAIN sync.fetch}

\* the process_email tasks queued so far for a message_id
DelayedFor(mid) ==
    {k \in 1..Len(sync.delayed) : sync.delayed[k].message_id = mid}

\* the message was in the table before the first sync
StoredBefore(mid) == \E r \in sync.emails : r.id = 0 /\ r.message_id = mid

\* no message_id has two rows
NoTwoRows ==
    \A mid \in FetchedMessages :
        Cardinality({r \in sync.emails : r.message_id = mid}) <= 1

\* no message_id has had two process_email tasks queued
NoTwoTasks ==
    \A mid \in FetchedMessages : Cardinality(DelayedFor(mid)) <= 1

\* once a fetch_new_emails task has ended, each message it fetched has one
\* row, and one task was queued for it unless it was stored before
OneRowOneTask ==
    \A t \in DOMAIN sync.fetch :
        sync.fetch[t].pc \in {"returned", "raised"}
        => \A k \in 1..Len(sync.fetch[t].emails_data) :
              LET mid == sync.fetch[t].emails_data[k]
              IN  /\ Cardinality({r \in Committed : r.message_id = mid}) = 1
                  /\ Cardinality(DelayedFor(mid))
                         = IF StoredBefore(mid) THEN 0 ELSE 1

\* C30: fetch_new_emails is idempotent with respect to the store: a fetched
\* message whose message_id is not stored gets exactly one row and exactly one
\* queued process_email task, a stored one gets nothing, and syncing again, or
\* with the same message twice in a batch, never yields two rows or two
\* queued tasks for one message_id.
C30_SyncIdempotent == NoTwoRows /\ NoTwoTasks /\ OneRowOneTask

-----------------------------------------------------------------------------
(* Properties of concurrent invocations (checked under SpecConcurrent)     *)

\* what an invocation returns and does to its message when it runs alone
\* against table st and meets the same outcomes of the completion call, the
\* embedding call and the database
AloneOutcomes(e, prefs, st, resp, emb, d) ==
    LET r == ApplyCustomRules(View(e), ClassifyEmail(resp), prefs)
    IN  IF r.raised
        THEN {[result |-> Fallback(r.error), email |-> e]}
        ELSE {[result |-> TriageResult(r.value, s.value),
               email |-> Attach(e, emb)] :
                 s \in FindSimilarEmails(d, StoreAfterAttach(st, e, emb), e,
                                         DefaultLimit)}

\* C17: concurrent invocations for different messages share no mutable state:
\* under every interleaving the table and the preferences stay as they were,
\* and every invocation that has returned has the result and the message
\* mutation of a run alone against the same table.
C17_InterleavingInvisible ==
    pc = "concurrent"
    => \A i \in DOMAIN conc :
         LET l == conc[i]
         IN  /\ store = l.store0
             /\ l.pc = "done"
                => [result |-> l.result, email |-> l.email]
                     \in AloneOutcomes(l.email0, user_preferences, l.store0,
                                       l.response, l.embedding, l.database)

\* both invocations returned on the normal path, each took steps while the
\* other was in flight, and the second found the first's message among its
\* neighbours
C17_Witness ==
    /\ pc = "concurrent"
    /\ \A i \in DOMAIN conc :
           /\ conc[i].pc = "done" /\ conc[i].overlapped
           /\ ~conc[i].caught.raised
    /\ conc[2].result.similar_emails # << >>
    /\ conc[2].result.similar_emails[1] = 1

====
